---- MODULE Spec2Model ----
(***************************************************************************)
(* A state-machine model of pytorch/model.py: BaseModel and SRGANModel.    *)
(*                                                                         *)
(* Tensors and network weights are abstracted to what the control flow of  *)
(* the file decides about them:                                            *)
(*   - a network's parameters are a version counter plus the set of loss   *)
(*     terms whose gradients the last optimizer step applied;              *)
(*   - a parameter's .grad buffer is the set of loss terms whose backward  *)
(*     pass has accumulated into it since it was last zeroed;              *)
(*   - an optimizer's / scheduler's state_dict is its step / epoch count;  *)
(*   - a log entry is the name of the scalar and the number of the         *)
(*     optimize_parameters call that computed it.                          *)
(***************************************************************************)
EXTENDS Integers, Sequences, FiniteSets, TLC

VARIABLES opt, phase, self, calls, saved, last

vars == <<opt, phase, self, calls, saved, last>>

-----------------------------------------------------------------------------
(* Bounds of the model.                                                    *)

\* largest value of the argument `step` of optimize_parameters
MaxStep == 4
\* optimize_parameters calls explored per run
MaxCalls == 2
\* scheduler epochs explored per run (update_learning_rate calls)
MaxEpoch == 1
\* longest optimizer / scheduler list of a foreign resume_state
MaxLen == 2

-----------------------------------------------------------------------------
(* Configuration values (opt and opt["train"]).  0 stands for a falsy      *)
(* D_update_ratio / D_init_iters (None or 0).                              *)

Criteria == {"l1", "l2", "cb"}
Weights == {0, 1}
GanTypes == {"vanilla", "wgan-gp"}
Schemes == {"MultiStepLR", "StepLR"}
Ratios == {0, 2}
InitIters == {0, 2}
Paths == {"None", "pth"}

AllOpts ==
  [is_train : BOOLEAN,
   pretrain_model_G : Paths, pretrain_model_D : Paths,
   pixel_weight : Weights, pixel_criterion : Criteria,
   feature_weight : Weights, feature_criterion : Criteria,
   gan_type : GanTypes, lr_scheme : Schemes,
   D_update_ratio : Ratios, D_init_iters : InitIters]

-----------------------------------------------------------------------------
(* Values of the object's fields.                                          *)

NoNet == [built |-> FALSE, loaded |-> FALSE, training |-> FALSE,
          version |-> 0, applied |-> {}, grad |-> {}]

NewNet == [built |-> TRUE, loaded |-> FALSE, training |-> TRUE,
           version |-> 0, applied |-> {}, grad |-> {}]

NoTensor == [src |-> "unset", gver |-> 0, mode |-> "unset", graph |-> {}]

EmptyLog == [k \in {} |-> 0]

\* BaseModel.__init__
BaseModelInit(o) ==
  [is_train |-> o.is_train,
   schedulers |-> <<>>,
   optimizers |-> <<>>,
   netG |-> NoNet, netD |-> NoNet, netF |-> NoNet,
   cri_pix |-> "None", cri_fea |-> "None",
   D_update_ratio |-> 0, D_init_iters |-> 0,
   has_log |-> FALSE, log_dict |-> EmptyLog,
   var_L |-> "unset", var_H |-> "unset", var_ref |-> "unset",
   fake_H |-> NoTensor]

\* the state before SRGANModel(opt) is called, and after it raised
Unbuilt == BaseModelInit([is_train |-> FALSE])

-----------------------------------------------------------------------------
(* SRGANModel.__init__, stage by stage.  Each stage maps the object under  *)
(* construction to the next one; a criterion of "raise" stands for the     *)
(* NotImplementedError of that branch.                                     *)

\* lines 102-106: generator always, discriminator in training mode
BuildNetworks(m, o) ==
  [m EXCEPT !.netG = NewNet,
            !.netD = IF m.is_train THEN NewNet ELSE NoNet]

\* SRGANModel.load / BaseModel.load_network
Load(m, o) ==
  LET g == IF o.pretrain_model_G # "None"
             THEN [m EXCEPT !.netG.loaded = TRUE] ELSE m
  IN IF o.is_train /\ o.pretrain_model_D # "None"
       THEN [g EXCEPT !.netD.loaded = TRUE] ELSE g

\* variant: an unrecognized pixel criterion falls back to L1 instead of raising
PixelCriterion_Fallback(o) ==
  IF o.pixel_weight > 0
    THEN IF o.pixel_criterion = "l2" THEN "l2" ELSE "l1"
    ELSE "None"

\* lines 110-123
PixelCriterion(o) ==
  IF o.pixel_weight > 0
    THEN IF o.pixel_criterion = "l1" THEN "l1"
         ELSE IF o.pixel_criterion = "l2" THEN "l2"
         ELSE "raise"
    ELSE "None"

\* lines 125-138
FeatureCriterion(o) ==
  IF o.feature_weight > 0
    THEN IF o.feature_criterion = "l1" THEN "l1"
         ELSE IF o.feature_criterion = "l2" THEN "l2"
         ELSE "raise"
    ELSE "None"

\* lines 144-149: a falsy ratio / warm-up count falls back to 1 / 0
UpdateRatio(o) == IF o.D_update_ratio # 0 THEN o.D_update_ratio ELSE 1
InitItersOf(o) == IF o.D_init_iters # 0 THEN o.D_init_iters ELSE 0

\* lines 163-177: Adam for G, then Adam for D, appended in that order
NewOptimizer(name, net) == [id |-> name, net |-> net, state |-> 0]
BuildOptimizers(m) ==
  [m EXCEPT !.optimizers =
     Append(Append(m.optimizers, NewOptimizer("optimizer_G", "netG")),
            NewOptimizer("optimizer_D", "netD"))]

\* variant: every scheduler is built on the optimizer appended last
BuildSchedulers_LastOptimizer(m) ==
  [m EXCEPT !.schedulers =
     m.schedulers \o [i \in 1..Len(m.optimizers) |->
                        [optimizer |-> m.optimizers[Len(m.optimizers)].id,
                         state |-> 0]]]

\* lines 180-185: one MultiStepLR per optimizer, in list order
NewScheduler(optimizer) == [optimizer |-> optimizer.id, state |-> 0]
BuildSchedulers(m) ==
  [m EXCEPT !.schedulers =
     m.schedulers \o [i \in 1..Len(m.optimizers) |-> NewScheduler(m.optimizers[i])]]

\* the outcome of a call: what it raised ("None": it returned) and the object
Outcome(err, m) == [raised |-> err, m |-> m]
Raised(err) == Outcome(err, Unbuilt)
Returned(m) == Outcome("None", m)

SRGANModelInit(o) ==
  LET m0 == BaseModelInit(o)
      m1 == Load(BuildNetworks(m0, o), o)
  IN IF ~m1.is_train THEN Returned(m1)
     ELSE IF PixelCriterion(o) = "raise" THEN Raised("NotImplementedError")
     ELSE IF FeatureCriterion(o) = "raise" THEN Raised("NotImplementedError")
     ELSE
       LET m2 == [m1 EXCEPT !.cri_pix = PixelCriterion(o),
                            !.cri_fea = FeatureCriterion(o),
                            !.netF = IF FeatureCriterion(o) # "None"
                                       THEN NewNet ELSE NoNet,
                            !.D_update_ratio = UpdateRatio(o),
                            !.D_init_iters = InitItersOf(o)]
           m3 == BuildOptimizers(m2)
       IN IF o.lr_scheme = "MultiStepLR"
            THEN Returned([BuildSchedulers(m3) EXCEPT !.has_log = TRUE,
                                                      !.log_dict = EmptyLog])
            ELSE Raised("NotImplementedError")

-----------------------------------------------------------------------------
(* The record of the last call: which method, its arguments, what it       *)
(* raised, and the scalar losses the call computed.                        *)

NoState == [epoch |-> 0, iter |-> 0, schedulers |-> <<>>, optimizers |-> <<>>]

Call(op, raised) ==
  [op |-> op, raised |-> raised, step |-> 0, arg |-> NoState, computed |-> {}]

\* the configurations the training runs are explored under: no pretrained
\* weights, recognized criteria, every combination of the loss weights, the
\* GAN type and the update schedule; one inference-mode configuration and
\* one with an unsupported scheme
PlainOpts ==
  {o \in AllOpts :
     /\ o.pretrain_model_G = "None" /\ o.pretrain_model_D = "None"
     /\ o.pixel_criterion = "l1" /\ o.feature_criterion = "l2"}

Canonical(o) ==
  /\ o.pixel_weight = 1 /\ o.feature_weight = 1
  /\ o.gan_type = "vanilla"
  /\ o.D_init_iters = 0

TrainOpts ==
  {o \in PlainOpts :
     (~o.is_train \/ o.lr_scheme # "MultiStepLR")
        => (Canonical(o) /\ o.D_update_ratio = 0)}

\* the configurations the checkpoint runs are explored under: one loss
\* configuration, both update ratios, training and inference mode
CheckpointOpts ==
  {o \in PlainOpts :
     /\ Canonical(o) /\ o.lr_scheme = "MultiStepLR"
     /\ ~o.is_train => o.D_update_ratio = 0}

NoFile == [exists |-> FALSE, name |-> 0, state |-> NoState]

InitWith(opts) ==
  /\ opt \in opts
  /\ phase = "new"
  /\ self = Unbuilt
  /\ calls = 0
  /\ saved = NoFile
  /\ last = Call("none", "None")

Init == InitWith(TrainOpts)

InitConstruct == InitWith(AllOpts)

\* model = SRGANModel(opt)
Construct ==
  /\ phase = "new"
  /\ LET r == SRGANModelInit(opt)
     IN /\ self' = r.m
        /\ phase' = IF r.raised = "None" THEN "ready" ELSE "failed"
        /\ last' = Call("__init__", r.raised)
  /\ UNCHANGED <<opt, calls, saved>>

-----------------------------------------------------------------------------
\* SRGANModel.feed_data(data, need_HR); has_ref says whether "ref" in data
FeedData(m, has_ref, need_HR) ==
  IF need_HR
    THEN [m EXCEPT !.var_L = "LR", !.var_H = "HR",
                   !.var_ref = IF has_ref THEN "ref" ELSE "HR"]
    ELSE [m EXCEPT !.var_L = "LR"]

feed_data ==
  /\ phase = "ready"
  /\ \E has_ref \in BOOLEAN, need_HR \in BOOLEAN :
       self' = FeedData(self, has_ref, need_HR)
  /\ last' = Call("feed_data", "None")
  /\ UNCHANGED <<opt, phase, calls, saved>>

\* the forward pass self.netG(self.var_L): the image carries the version of
\* the weights and the mode (train / eval) of the generator that made it, and
\* the networks its autograd graph reaches (none under torch.no_grad())
Forward(m, grad_enabled) ==
  [src |-> m.var_L, gver |-> m.netG.version,
   mode |-> IF m.netG.training THEN "train" ELSE "eval",
   graph |-> IF grad_enabled THEN {"netG"} ELSE {}]

\* variant: the generator is left in evaluation mode
Test_NoRestore(m) ==
  LET e == [m EXCEPT !.netG.training = FALSE]
  IN [e EXCEPT !.fake_H = Forward(e, FALSE)]

\* SRGANModel.test
Test(m) ==
  LET e == [m EXCEPT !.netG.training = FALSE]
      f == [e EXCEPT !.fake_H = Forward(e, FALSE)]
  IN [f EXCEPT !.netG.training = TRUE]

test ==
  /\ phase = "ready"
  /\ self.var_L # "unset"
  /\ self' = Test(self)
  /\ last' = Call("test", "None")
  /\ UNCHANGED <<opt, phase, calls, saved>>

-----------------------------------------------------------------------------
(* SRGANModel.optimize_parameters(step).                                   *)

\* tensor.detach(): the same values, cut from the autograd graph
Detach(t) == [t EXCEPT !.graph = {}]

\* optimizer.zero_grad() for the optimizer of network `net`
ZeroGrad(m, net) ==
  IF net = "netG" THEN [m EXCEPT !.netG.grad = {}]
                  ELSE [m EXCEPT !.netD.grad = {}]

\* loss.backward(): the loss accumulates into the .grad of every network its
\* graph reaches (netF is a fixed feature extractor and is never optimized)
Backward(m, loss, graph) ==
  [m EXCEPT !.netG.grad = IF "netG" \in graph THEN @ \cup {loss} ELSE @,
            !.netD.grad = IF "netD" \in graph THEN @ \cup {loss} ELSE @]

\* self.optimizers[i].step(): the optimizer applies the accumulated gradients
\* to the parameters of its network and advances its own state
OptimizerStep(m, i) ==
  LET o == [m EXCEPT !.optimizers[i].state = @ + 1]
  IN IF m.optimizers[i].net = "netG"
       THEN [o EXCEPT !.netG.version = @ + 1, !.netG.applied = m.netG.grad]
       ELSE [o EXCEPT !.netD.version = @ + 1, !.netD.applied = m.netD.grad]

\* variant: the warm-up comparison is not strict
GeneratorRuns_AtWarmup(m, step) ==
  step % m.D_update_ratio = 0 /\ step >= m.D_init_iters

\* line 205 and line 247
GeneratorRuns(m, step) ==
  step % m.D_update_ratio = 0 /\ step > m.D_init_iters

\* lines 201-219
GeneratorPhase(m, step) ==
  LET z == ZeroGrad(m, "netG")
      f == [z EXCEPT !.fake_H = Forward(z, TRUE)]
  IN IF GeneratorRuns(f, step)
       THEN \* pred_g_fake = netD(fake_H) puts netD on the graph of l_g_total
            OptimizerStep(
              Backward(f, "l_g_total", f.fake_H.graph \cup {"netD"}), 1)
       ELSE f

\* the image the discriminator phase is fed: self.fake_H.detach()
DiscriminatorInput(m) == Detach(m.fake_H)

\* variant: optimizer_D.zero_grad() is missing
DiscriminatorPhase_NoZeroGrad(m) ==
  OptimizerStep(
    Backward(m, "l_d_total", {"netD"} \cup DiscriminatorInput(m).graph), 2)

\* variant: the discriminator loss is backpropagated but optimizer_D.step()
\* is missing
DiscriminatorPhase_NoStep(m) ==
  Backward(ZeroGrad(m, "netD"), "l_d_total",
           {"netD"} \cup DiscriminatorInput(m).graph)

\* lines 221-245
DiscriminatorPhase(m) ==
  LET z == ZeroGrad(m, "netD")
      \* netD(var_ref), netD(fake_H.detach()) and, for wgan-gp, netD(interp)
      graph == {"netD"} \cup DiscriminatorInput(z).graph
  IN OptimizerStep(Backward(z, "l_d_total", graph), 2)

\* variant: the discriminator entries, with l_d_gp written for every GAN type
DiscriminatorEntries_GpAlways(o) ==
  {"l_d_real", "l_d_fake", "D_real", "D_fake", "l_d_gp"}

\* the entries one call writes, lines 247-259: key -> scalar
GeneratorEntries(m) ==
  (IF m.cri_pix # "None" THEN {"l_g_pix"} ELSE {})
    \cup (IF m.cri_fea # "None" THEN {"l_g_fea"} ELSE {})
    \cup {"l_g_gan"}

DiscriminatorEntries(o) ==
  {"l_d_real", "l_d_fake", "D_real", "D_fake"}
    \cup (IF o.gan_type = "wgan-gp" THEN {"l_d_gp"} ELSE {})

Written(m, o, step) ==
  (IF GeneratorRuns(m, step) THEN GeneratorEntries(m) ELSE {})
    \cup DiscriminatorEntries(o)

\* variant: the mapping is rebuilt by every call
RecordLog_Rebuilt(m, o, step, n) ==
  [m EXCEPT !.log_dict =
     [k \in Written(m, o, step) |-> [scalar |-> k, call |-> n]]]

\* lines 247-259: self.log_dict[key] = value, for the keys of this call;
\* every other entry of the mapping is left as it is
RecordLog(m, o, step, n) ==
  [m EXCEPT !.log_dict =
     [k \in DOMAIN m.log_dict \cup Written(m, o, step) |->
        IF k \in Written(m, o, step) THEN [scalar |-> k, call |-> n]
        ELSE m.log_dict[k]]]

OptimizeParameters(m, o, step, n) ==
  RecordLog(DiscriminatorPhase(GeneratorPhase(m, step)), o, step, n)

\* the scalar losses the call assigns (l_g_total stays the integer 0 when
\* the generator update is skipped)
ComputedLosses(m, o, step) ==
  (IF GeneratorRuns(m, step)
     THEN (IF m.cri_pix # "None" THEN {"l_g_pix"} ELSE {})
          \cup (IF m.cri_fea # "None" THEN {"l_g_fea"} ELSE {})
          \cup {"l_g_gan", "l_g_total"}
     ELSE {})
    \cup {"l_d_real", "l_d_fake", "l_d_total"}
    \cup (IF o.gan_type = "wgan-gp" THEN {"l_d_gp"} ELSE {})

optimize_parameters ==
  /\ phase = "ready"
  /\ self.is_train
  /\ self.var_L # "unset" /\ self.var_H # "unset" /\ self.var_ref # "unset"
  /\ calls < MaxCalls
  /\ \E step \in 0..MaxStep :
       /\ self' = OptimizeParameters(self, opt, step, calls + 1)
       /\ last' = [Call("optimize_parameters", "None") EXCEPT
                     !.step = step,
                     !.computed = ComputedLosses(self, opt, step)]
  /\ calls' = calls + 1
  /\ UNCHANGED <<opt, phase, saved>>

\* SRGANModel.get_current_log
get_current_log == self.log_dict

-----------------------------------------------------------------------------
(* BaseModel: learning-rate stepping and the training-state checkpoint.    *)

\* scheduler.step()
SchedulerStep(s) == [s EXCEPT !.state = @ + 1]

\* BaseModel.update_learning_rate
UpdateLearningRate(m) ==
  [m EXCEPT !.schedulers =
     [i \in DOMAIN m.schedulers |-> SchedulerStep(m.schedulers[i])]]

update_learning_rate ==
  /\ phase = "ready"
  /\ \A i \in DOMAIN self.schedulers : self.schedulers[i].state < MaxEpoch
  /\ self' = UpdateLearningRate(self)
  /\ last' = Call("update_learning_rate", "None")
  /\ UNCHANGED <<opt, phase, calls, saved>>

\* x.state_dict() and x.load_state_dict(sd) of an optimizer or scheduler
StateDict(x) == x.state
LoadStateDict(x, sd) == [x EXCEPT !.state = sd]

\* variant: the two lists are stored under each other's key
SaveTrainingState_Swapped(m, epoch, iter_step) ==
  [epoch |-> epoch, iter |-> iter_step,
   schedulers |-> [i \in DOMAIN m.optimizers |-> StateDict(m.optimizers[i])],
   optimizers |-> [i \in DOMAIN m.schedulers |-> StateDict(m.schedulers[i])]]

\* BaseModel.save_training_state: the mapping handed to torch.save
SaveTrainingState(m, epoch, iter_step) ==
  [epoch |-> epoch, iter |-> iter_step,
   schedulers |-> [i \in DOMAIN m.schedulers |-> StateDict(m.schedulers[i])],
   optimizers |-> [i \in DOMAIN m.optimizers |-> StateDict(m.optimizers[i])]]

\* the arguments a caller passes for epoch and iter_step
EpochArgs == {0, 1}
IterArgs == {2}

\* the file "{iter_step}.state"; the model keeps the file written last
save_training_state ==
  /\ phase = "ready"
  /\ \E epoch \in EpochArgs, iter_step \in IterArgs :
       /\ saved' = [exists |-> TRUE, name |-> iter_step,
                    state |-> SaveTrainingState(self, epoch, iter_step)]
       /\ last' = [Call("save_training_state", "None") EXCEPT
                     !.arg = [NoState EXCEPT !.epoch = epoch, !.iter = iter_step]]
  /\ UNCHANGED <<opt, phase, self, calls>>

\* lines 91-94: the i-th saved state goes to the i-th object
LoadStates(objs, states) ==
  [i \in DOMAIN objs |->
     IF i \in DOMAIN states THEN LoadStateDict(objs[i], states[i]) ELSE objs[i]]

\* variant: the scheduler lengths are compared after the optimizers are loaded
ResumeTraining_LateCheck(m, resume_state) ==
  LET resume_optimizers == resume_state.optimizers
      resume_schedulers == resume_state.schedulers
      l == [m EXCEPT !.optimizers = LoadStates(m.optimizers, resume_optimizers)]
  IN IF Len(resume_optimizers) # Len(m.optimizers)
       THEN Outcome("AssertionError", m)
     ELSE IF Len(resume_schedulers) # Len(m.schedulers)
       THEN Outcome("AssertionError", l)
     ELSE Returned([l EXCEPT
            !.schedulers = LoadStates(l.schedulers, resume_schedulers)])

\* BaseModel.resume_training
ResumeTraining(m, resume_state) ==
  LET resume_optimizers == resume_state.optimizers
      resume_schedulers == resume_state.schedulers
  IN IF Len(resume_optimizers) # Len(m.optimizers)
       THEN Outcome("AssertionError", m)
     ELSE IF Len(resume_schedulers) # Len(m.schedulers)
       THEN Outcome("AssertionError", m)
     ELSE Returned([m EXCEPT
            !.optimizers = LoadStates(m.optimizers, resume_optimizers),
            !.schedulers = LoadStates(m.schedulers, resume_schedulers)])

\* training states that were not written by this run: every pair of list
\* lengths up to MaxLen
ForeignStates ==
  {[NoState EXCEPT !.optimizers = [i \in 1..j |-> 0],
                   !.schedulers = [i \in 1..k |-> 0]] :
     j \in 0..MaxLen, k \in 0..MaxLen}

resume_training ==
  /\ phase = "ready"
  /\ \E resume_state \in ForeignStates \cup
                         (IF saved.exists THEN {saved.state} ELSE {}) :
       LET r == ResumeTraining(self, resume_state)
       IN /\ self' = r.m
          /\ last' = [Call("resume_training", r.raised) EXCEPT
                        !.arg = resume_state]
  /\ UNCHANGED <<opt, phase, calls, saved>>

\* a training run: construction, then batches, training steps, inference
\* passes and learning-rate updates in any order
Next ==
  \/ Construct
  \/ feed_data
  \/ test
  \/ optimize_parameters
  \/ update_learning_rate

Spec == Init /\ [][Next]_vars

\* a run with training-state checkpoints: every operation that reads or
\* writes an optimizer or a scheduler, in any order
NextCheckpoint ==
  \/ Construct
  \/ feed_data
  \/ optimize_parameters
  \/ update_learning_rate
  \/ save_training_state
  \/ resume_training

SpecCheckpoint == InitWith(CheckpointOpts) /\ [][NextCheckpoint]_vars

\* construction alone, over every configuration
NextConstruct == Construct \/ feed_data \/ test

SpecConstruct == InitConstruct /\ [][NextConstruct]_vars

-----------------------------------------------------------------------------
(* Properties.                                                             *)

\* the last step was a call of optimize_parameters
Optimized == last.op = "optimize_parameters"

\* the generator update is due at `step`: a multiple of the update ratio,
\* strictly past the warm-up count
Due(m, step) == step % m.D_update_ratio = 0 /\ step > m.D_init_iters

\* C1: every optimize_parameters(step) call takes exactly one generator
\* optimizer step when step is a multiple of D_update_ratio and step >
\* D_init_iters, and otherwise takes none and leaves the generator's
\* parameters as they were; step = 0 and step = D_init_iters never update.
C1_GeneratorUpdateSchedule ==
  [][calls' = calls + 1 =>
       LET step == last'.step
           same == /\ self'.optimizers[1] = self.optimizers[1]
                   /\ self'.netG.version = self.netG.version
                   /\ self'.netG.applied = self.netG.applied
       IN /\ IF Due(self, step)
               THEN /\ self'.optimizers[1].state = self.optimizers[1].state + 1
                    /\ self'.netG.version = self.netG.version + 1
               ELSE same
          /\ (step = 0 \/ step = self.D_init_iters) => same]_vars

\* a call at step = D_init_iters > 0, a multiple of the ratio, leaving the
\* generator untouched
C1_Witness ==
  /\ Optimized
  /\ last.step = self.D_init_iters /\ last.step > 0
  /\ last.step % self.D_update_ratio = 0
  /\ self.netG.version = 0 /\ self.optimizers[1].state = 0

\* C2: every optimize_parameters call performs exactly one discriminator
\* optimizer step, whatever step, D_update_ratio and D_init_iters are and
\* whether or not the generator update ran.
C2_DiscriminatorAlwaysSteps ==
  [][calls' = calls + 1 =>
       /\ self'.optimizers[2].id = "optimizer_D"
       /\ self'.optimizers[2].state = self.optimizers[2].state + 1
       /\ self'.netD.version = self.netD.version + 1]_vars

\* two calls, the generator update skipped in both, the discriminator
\* stepped twice
C2_Witness ==
  /\ Optimized /\ calls = 2
  /\ self.netG.version = 0
  /\ self.netD.version = 2

\* the keys of the generator's and of the discriminator's log entries
GeneratorKeys == {"l_g_pix", "l_g_fea", "l_g_gan"}
DiscriminatorKeys == {"l_d_real", "l_d_fake", "l_d_gp", "D_real", "D_fake"}

\* C3 as stated: after any sequence of calls every entry of the log mapping
\* holds a value computed during the most recent call.
C3_LogRebuiltEachCall ==
  \A k \in DOMAIN get_current_log : get_current_log[k].call = calls

\* C3 as amended: a call replaces the discriminator entries, and the
\* generator entries when the generator update ran, by values of that call,
\* and leaves every other entry of the mapping as the earlier calls wrote it.
C3_LogUpdatedInPlace ==
  [][calls' = calls + 1 =>
       LET old == self.log_dict
           new == self'.log_dict
           ran == Due(self, last'.step)
       IN /\ DOMAIN old \subseteq DOMAIN new
          /\ \A k \in DOMAIN new :
               IF k \in DiscriminatorKeys \/ (ran /\ k \in GeneratorKeys)
                 THEN new[k].call = calls'
                 ELSE k \in DOMAIN old /\ new[k] = old[k]
          /\ {"l_d_real", "l_d_fake", "D_real", "D_fake"} \subseteq DOMAIN new
          /\ ran => "l_g_gan" \in DOMAIN new]_vars

\* after a call that skipped the generator update the mapping still holds
\* the adversarial generator loss of an earlier call
C3_Witness ==
  /\ Optimized
  /\ ~Due(self, last.step)
  /\ "l_g_gan" \in DOMAIN get_current_log
  /\ get_current_log["l_g_gan"].call < calls
  /\ get_current_log["l_d_real"].call = calls

\* the two sums, which the call computes and backpropagates
Totals == {"l_g_total", "l_d_total"}

\* C4 as stated: every scalar loss the call computed, the two totals
\* included, has an entry in the log mapping, and l_d_gp is written only
\* when gan_type is wgan-gp.
C4_AllComputedLossesLogged ==
  Optimized =>
    /\ last.computed \subseteq DOMAIN get_current_log
    /\ "l_d_gp" \in DOMAIN get_current_log => opt.gan_type = "wgan-gp"

\* C4 as amended: every scalar loss the call computed except the two totals
\* has an entry holding the value of this call; the totals have none; and
\* l_d_gp is written only when gan_type is wgan-gp.
C4_TermLossesLogged ==
  Optimized =>
    /\ \A l \in last.computed \ Totals :
         /\ l \in DOMAIN get_current_log
         /\ get_current_log[l] = [scalar |-> l, call |-> calls]
    /\ Totals \cap DOMAIN get_current_log = {}
    /\ "l_d_gp" \in DOMAIN get_current_log => opt.gan_type = "wgan-gp"

\* a wgan-gp call in which the generator update ran with both criteria
C4_Witness ==
  /\ Optimized
  /\ opt.gan_type = "wgan-gp"
  /\ {"l_g_pix", "l_g_fea", "l_g_gan", "l_g_total", "l_d_gp"} \subseteq last.computed
  /\ "l_d_gp" \in DOMAIN get_current_log

\* C7: test() runs the forward pass in evaluation mode without gradients and
\* leaves the generator in training mode; it replaces fake_H and changes no
\* parameter, optimizer, scheduler or log entry.
C7_TestFrame ==
  [][last'.op = "test" =>
       /\ self'.netG.training
       /\ self'.fake_H.mode = "eval" /\ self'.fake_H.graph = {}
       /\ self'.fake_H.gver = self.netG.version
       /\ self' = [self EXCEPT !.fake_H = self'.fake_H]
       /\ calls' = calls /\ saved' = saved]_vars

\* a test() call on a model that has trained
C7_Witness ==
  /\ last.op = "test"
  /\ self.is_train /\ self.netD.version > 0 /\ self.netG.version > 0
  /\ DOMAIN self.log_dict # {}
  /\ self.fake_H.mode = "eval" /\ self.netG.training

\* C10: within a call the generator phase comes first and the two phases do
\* not contaminate each other: the image is made by the generator before its
\* step, the discriminator step applies the gradient of the discriminator
\* loss alone, and the discriminator loss reaches neither the generator's
\* gradients nor its parameters.
C10_PhasesSeparated ==
  [][calls' = calls + 1 =>
       /\ self'.fake_H.gver = self.netG.version
       /\ self'.fake_H.mode = "train"
       /\ self'.netD.applied = {"l_d_total"}
       /\ "l_d_total" \notin self'.netG.grad
       /\ "l_d_total" \notin self'.netG.applied
       /\ IF Due(self, last'.step)
            THEN self'.netG.applied = {"l_g_total"}
            ELSE self'.netG.applied = self.netG.applied]_vars

\* a call in which both updates ran
C10_Witness ==
  /\ Optimized
  /\ Due(self, last.step)
  /\ self.netG.applied = {"l_g_total"}
  /\ self.netD.applied = {"l_d_total"}
  /\ self.netD.grad = {"l_d_total"}

\* the lists of a training state do not match the lists of the model
LengthMismatch(m, resume_state) ==
  \/ Len(resume_state.optimizers) # Len(m.optimizers)
  \/ Len(resume_state.schedulers) # Len(m.schedulers)

\* C5: resume_training fails with an assertion error whenever the number of
\* saved optimizer states or of saved scheduler states differs from the
\* model's, and a failed call has loaded nothing: the model is unchanged.
C5_ResumeChecksBeforeLoading ==
  [][last'.op = "resume_training" =>
       /\ LengthMismatch(self, last'.arg) <=> last'.raised = "AssertionError"
       /\ LengthMismatch(self, last'.arg) => self' = self]_vars

\* a failed call whose optimizer list matched and whose scheduler list did
\* not, on a model whose optimizer state differs from the state passed
C5_Witness ==
  /\ last.op = "resume_training" /\ last.raised = "AssertionError"
  /\ Len(last.arg.optimizers) = Len(self.optimizers)
  /\ Len(last.arg.schedulers) # Len(self.schedulers)
  /\ self.is_train
  /\ self.optimizers[2].state # last.arg.optimizers[2]

\* some pixel_criterion / feature_criterion / lr_scheme is unrecognized
Unrecognized(o) ==
  \/ o.pixel_criterion \notin {"l1", "l2"}
  \/ o.feature_criterion \notin {"l1", "l2"}
  \/ o.lr_scheme # "MultiStepLR"

\* a criterion that is in use (its weight is positive) or the scheme is
\* unrecognized
UnrecognizedInUse(o) ==
  \/ o.pixel_weight > 0 /\ o.pixel_criterion \notin {"l1", "l2"}
  \/ o.feature_weight > 0 /\ o.feature_criterion \notin {"l1", "l2"}
  \/ o.lr_scheme # "MultiStepLR"

ConstructionFailed ==
  /\ phase = "failed"
  /\ last.raised = "NotImplementedError"
  /\ self = Unbuilt

\* C6 as stated: training-mode construction raises a not-implemented error
\* for every configuration with an unrecognized criterion or scheme,
\* regardless of the loss weights.
C6_UnrecognizedAlwaysRaises ==
  (phase # "new" /\ opt.is_train /\ Unrecognized(opt)) => ConstructionFailed

\* C6 as amended: training-mode construction raises a not-implemented error,
\* and yields no model, exactly when the scheme is unrecognized or a
\* criterion whose weight is positive is; an unrecognized criterion whose
\* weight is not positive is never read.
C6_UnrecognizedInUseRaises ==
  (phase # "new" /\ opt.is_train) =>
    IF UnrecognizedInUse(opt) THEN ConstructionFailed
    ELSE phase = "ready" /\ last.raised = "None"

\* a training-mode model built from a configuration whose pixel criterion is
\* unrecognized and whose pixel weight is zero
C6_Witness ==
  /\ phase = "ready" /\ opt.is_train
  /\ opt.pixel_criterion \notin {"l1", "l2"} /\ opt.pixel_weight = 0
  /\ self.cri_pix = "None" /\ Len(self.optimizers) = 2

\* C8: a training-mode model holds exactly the generator's and the
\* discriminator's optimizer, in that order, and one scheduler per optimizer,
\* scheduler i driving optimizer i, through every later call; an
\* inference-mode model has no discriminator and both lists empty.
C8_OptimizerSchedulerPairs ==
  phase = "ready" =>
    IF self.is_train
      THEN /\ Len(self.optimizers) = 2 /\ Len(self.schedulers) = 2
           /\ self.optimizers[1].id = "optimizer_G"
           /\ self.optimizers[1].net = "netG"
           /\ self.optimizers[2].id = "optimizer_D"
           /\ self.optimizers[2].net = "netD"
           /\ \A i \in 1..2 : self.schedulers[i].optimizer = self.optimizers[i].id
           /\ self.netD.built
      ELSE /\ self.optimizers = <<>> /\ self.schedulers = <<>>
           /\ ~self.netD.built

\* a training-mode model that has trained, stepped its schedulers and then
\* resumed from the saved training state
C8_Witness ==
  /\ phase = "ready" /\ self.is_train
  /\ last.op = "resume_training" /\ last.raised = "None"
  /\ saved.exists /\ last.arg = saved.state
  /\ calls > 0
  /\ self.schedulers[1].state > 0

\* the states of a list of optimizers or schedulers, in list order
StatesOf(objs) == [i \in DOMAIN objs |-> objs[i].state]

\* C9: save_training_state records the epoch, the iteration and the state of
\* every optimizer and scheduler in list order, and resume_training with
\* that state on a model of the same configuration succeeds and sets
\* optimizer i and scheduler i to the i-th saved state.
C9_TrainingStateRoundTrip ==
  /\ last.op = "save_training_state" =>
       /\ saved.exists
       /\ saved.name = last.arg.iter
       /\ saved.state.epoch = last.arg.epoch
       /\ saved.state.iter = last.arg.iter
       /\ saved.state.optimizers = StatesOf(self.optimizers)
       /\ saved.state.schedulers = StatesOf(self.schedulers)
  /\ (last.op = "resume_training" /\ saved.exists /\ last.arg = saved.state) =>
       /\ last.raised = "None"
       /\ StatesOf(self.optimizers) = saved.state.optimizers
       /\ StatesOf(self.schedulers) = saved.state.schedulers

\* a resume from the saved state whose optimizer states differ from each
\* other and from the scheduler states
C9_Witness ==
  /\ last.op = "resume_training" /\ saved.exists /\ last.arg = saved.state
  /\ self.is_train
  /\ saved.state.optimizers[1] # saved.state.optimizers[2]
  /\ saved.state.schedulers[1] # saved.state.optimizers[2]
  /\ StatesOf(self.optimizers) = saved.state.optimizers

====
